---- MODULE Spec2Model ----
(***************************************************************************)
(* The AFF4 image stream of src/src/aff4_image.cc: the write pipeline      *)
(* (Write -> FlushChunk -> _FlushBevy), Flush, the read pipeline           *)
(* (Read -> _ReadPartial -> _ReadChunkFromBevy) and LoadFromURN, over a    *)
(* volume of named members and a resolver of predicates.                   *)
(***************************************************************************)
EXTENDS Integers, Sequences, FiniteSets, TLC

(* ------------------------------ bounds --------------------------------- *)
\* Largest chunk_size and chunks_per_segment a stream is configured with.
MaxChunkSize == 3
MaxChunksPerSegment == 2
\* Most bytes handed to the Write calls of one session.
MaxTotal == 4
\* Most dirty Flush calls of one session.
MaxFlush == 2

\* The per-call ceiling of Read (scaled down with the bounds).
AFF4_MAX_READ_LEN == 16

\* The values a newly constructed stream holds until they are set or loaded.
DefaultChunkSize == 32768
DefaultChunksPerSegment == 1024
DefaultCompression == "ZLIB"

\* The compression methods of AFF4_IMAGE_COMPRESSION_ENUM_*.
KnownMethods == {"ZLIB", "SNAPPY", "STORED"}
Methods == KnownMethods \cup {"UNKNOWN"}

\* What the volume does during one Write or Flush call: it works, it cannot
\* be opened (AFF4FactoryOpen returns null), or CreateMember returns null.
VolumeModes == {"ok", "no_volume", "no_member"}

\* What the collaborators do during one Write or Flush call: all work, the
\* compression of the call's first or second chunk fails, or the volume fails.
Environments ==
  {[cfail |-> 0, vol |-> v] : v \in VolumeModes}
    \cup {[cfail |-> k, vol |-> "ok"] : k \in 1..2}

VARIABLES
  chunk_size, chunks_per_segment, compression,   \* stream parameters
  size, readptr, dirty,                          \* AFF4Stream fields
  buffer,                                        \* unflushed bytes
  bevy, bevy_index,                              \* bevy builder (StringIO)
  chunk_count_in_bevy, bevy_number,
  volume,                                        \* member URN -> bytes
  resolver,                                      \* predicate -> value
  last,                                          \* the last call and its result
  written,                                       \* history: all Write inputs
  submitted,                                     \* history: chunks FlushChunk took
  nflush,                                        \* history: dirty Flush calls
  appending,                                     \* history: every Write was at readptr = size
  failed,                                        \* history: a collaborator failed
  corrupted,                                     \* history: a member was damaged
  opened                                         \* history: how the object came to be

stream == <<chunk_size, chunks_per_segment, compression, size, readptr, dirty,
            buffer, bevy, bevy_index, chunk_count_in_bevy, bevy_number>>
history == <<written, submitted, nflush, appending, failed, corrupted, opened>>
vars == <<stream, volume, resolver, last, history>>

(* ------------------------------ helpers -------------------------------- *)
\* In the loops below, CHOOSE out \in { e(r) : r \in {call} } : TRUE is e(r)
\* with r the result of one evaluation of the call, as a local variable is.
Min(a, b) == IF a < b THEN a ELSE b
Max(a, b) == IF a > b THEN a ELSE b
Drop(s, n) == SubSeq(s, Min(n, Len(s)) + 1, Len(s))
Zeros(n) == [i \in 1..n |-> 0]

\* The data of the next Write of n bytes: the k-th byte handed to Write in a
\* session is 'A' + k, so every byte of the stream is distinct and a lost,
\* repeated or misplaced byte shows.
Pattern(n) == [i \in 1..n |-> 65 + Len(written) + i - 1]

\* (char *)&bevy_offset, sizeof(bevy_offset): a uint32 as 4 little-endian bytes.
\* (Offsets stay far below 2^32 here, so the cast to uint32_t keeps them.)
U32LE(n) ==
  << n % 256, (n \div 256) % 256, (n \div 65536) % 256, (n \div 16777216) % 256 >>

\* bevy_index[i] of the uint32_t view of the index bytes (i counted from 0).
U32At(bytes, i) ==
  bytes[4*i + 1] + 256 * bytes[4*i + 2] + 65536 * bytes[4*i + 3]
    + 16777216 * bytes[4*i + 4]

\* urn.Append(aff4_sprintf("%08d", n)) and bevy_urn.Append("index").
BevyURN(n) == [bevy |-> n, index |-> FALSE]
BevyIndexURN(n) == [bevy |-> n, index |-> TRUE]

\* AFF4Stream::Read of a member: at most n bytes from position pos.
StreamRead(data, pos, n) == SubSeq(data, Min(pos, Len(data)) + 1, Min(pos + n, Len(data)))

(* ------------------------------- codecs -------------------------------- *)
\* zlib's stream: a header byte, the length of the payload, the payload.
\* compress2 failing leaves the zero-filled buffer of compressBound + 1 bytes.
CompressZlib_(data, fail) ==
  IF fail
  THEN [status |-> "MEMORY_ERROR", output |-> Zeros(Len(data) + 3)]
  ELSE [status |-> "STATUS_OK", output |-> <<120, Len(data)>> \o data]

\* uncompress into a buffer of buffer_size bytes: decodes the stream the
\* input starts with and ignores what follows it; fails on a damaged or cut
\* stream and on output that does not fit. Given a buffer of 0 bytes
\* uncompress inflates into one byte of its own: a payload of one byte is
\* Z_OK then, and the buffer stays empty.
DeCompressZlib_(data, buffer_size) ==
  IF /\ Len(data) >= 2
     /\ data[1] = 120
     /\ data[2] <= Len(data) - 2
     /\ data[2] <= Max(buffer_size, 1)
  THEN [status |-> "STATUS_OK",
        buffer |-> SubSeq(data, 3, 2 + Min(data[2], buffer_size))]
  ELSE [status |-> "IO_ERROR", buffer |-> <<>>]

\* snappy's block: the uncompressed length, then the payload. Never fails.
CompressSnappy_(data) ==
  [status |-> "STATUS_OK", output |-> <<Len(data)>> \o data]

DeCompressSnappy_(data) ==
  IF Len(data) >= 1 /\ data[1] = Len(data) - 1
  THEN [status |-> "STATUS_OK", buffer |-> SubSeq(data, 2, Len(data))]
  ELSE [status |-> "GENERIC_ERROR", buffer |-> <<>>]

(* --------------------------- write pipeline ---------------------------- *)
\* The part of the stream the write pipeline changes, as one record.
WriteState ==
  [buffer |-> buffer, bevy |-> bevy, bevy_index |-> bevy_index,
   chunk_count_in_bevy |-> chunk_count_in_bevy, bevy_number |-> bevy_number,
   volume |-> volume, submitted |-> submitted, hit |-> FALSE]

_FlushBevy(w, vol) ==
  IF Len(w.bevy) = 0
  THEN [w |-> w, status |-> "STATUS_OK"]
  ELSE LET n == w.bevy_number
           w1 == [w EXCEPT !.bevy_number = n + 1]
       IN IF vol = "no_volume"
          THEN [w |-> [w1 EXCEPT !.hit = TRUE], status |-> "NOT_FOUND"]
          ELSE IF vol = "no_member"
          THEN [w |-> [w1 EXCEPT !.hit = TRUE], status |-> "IO_ERROR"]
          ELSE [w |-> [w1 EXCEPT
                         !.volume = (BevyIndexURN(n) :> w.bevy_index)
                                      @@ (BevyURN(n) :> w.bevy) @@ w.volume,
                         !.bevy_index = <<>>,
                         !.bevy = <<>>,
                         !.chunk_count_in_bevy = 0],
                status |-> "STATUS_OK"]

\* The switch of FlushChunk over the compression method.
Compress(data, fail) ==
  CASE compression = "ZLIB" -> CompressZlib_(data, fail)
    [] compression = "SNAPPY" -> CompressSnappy_(data)
    [] OTHER -> [status |-> "STATUS_OK", output |-> data]

\* FlushChunk taking the index entry after the chunk is appended.
FlushChunk_OffsetAfter(w, data, fail, vol) ==
  IF compression \notin KnownMethods
  THEN [w |-> [w EXCEPT !.hit = TRUE], status |-> "IO_ERROR"]
  ELSE LET c == Compress(data, fail)
           bevy_offset == Len(w.bevy) + Len(c.output)
           w1 == [w EXCEPT
                    !.bevy_index = @ \o U32LE(bevy_offset),
                    !.bevy = @ \o c.output,
                    !.chunk_count_in_bevy = @ + 1,
                    !.submitted = Append(@, data),
                    !.hit = @ \/ c.status # "STATUS_OK"]
       IN IF w1.chunk_count_in_bevy >= chunks_per_segment
          THEN _FlushBevy(w1, vol)
          ELSE [w |-> w1, status |-> c.status]

FlushChunk(w, data, fail, vol) ==
  IF compression \notin KnownMethods
  THEN [w |-> [w EXCEPT !.hit = TRUE], status |-> "IO_ERROR"]
  ELSE LET bevy_offset == Len(w.bevy)
           c == Compress(data, fail)
           w1 == [w EXCEPT
                    !.bevy_index = @ \o U32LE(bevy_offset),
                    !.bevy = @ \o c.output,
                    !.chunk_count_in_bevy = @ + 1,
                    !.submitted = Append(@, data),
                    !.hit = @ \/ c.status # "STATUS_OK"]
       IN IF w1.chunk_count_in_bevy >= chunks_per_segment
          THEN _FlushBevy(w1, vol)
          ELSE [w |-> w1, status |-> c.status]

\* The loop of Write that consumes full chunks from the buffer. cfail is the
\* ordinal of the FlushChunk call of this Write whose compression fails
\* (0: none does).
RECURSIVE WriteLoop(_, _, _, _)
WriteLoop(w, offset, cfail, vol) ==
  IF Len(w.buffer) - offset >= chunk_size
  THEN CHOOSE out \in
         { IF r.status # "STATUS_OK"
           THEN [w |-> r.w, ok |-> FALSE, offset |-> offset]
           ELSE WriteLoop(r.w, offset + chunk_size, cfail - 1, vol) :
           r \in {FlushChunk(w, SubSeq(w.buffer, offset + 1, offset + chunk_size),
                             cfail = 1, vol)} } : TRUE
  ELSE [w |-> w, ok |-> TRUE, offset |-> offset]

\* Write emptying the buffer instead of keeping what is short of a chunk.
WriteCall_ClearBuffer(data, cfail, vol) ==
  LET w0 == [WriteState EXCEPT !.buffer = @ \o data]
      r == WriteLoop(w0, 0, cfail, vol)
  IN IF ~r.ok
     THEN [w |-> r.w, ret |-> 0, readptr |-> readptr, size |-> size]
     ELSE [w |-> [r.w EXCEPT !.buffer = <<>>],
           ret |-> Len(data),
           readptr |-> readptr + Len(data),
           size |-> Max(size, readptr + Len(data))]

\* Write taking the new readptr for the size, past the end or not.
WriteCall_SizeIsReadptr(data, cfail, vol) ==
  LET w0 == [WriteState EXCEPT !.buffer = @ \o data]
      r == WriteLoop(w0, 0, cfail, vol)
  IN IF ~r.ok
     THEN [w |-> r.w, ret |-> 0, readptr |-> readptr, size |-> size]
     ELSE [w |-> [r.w EXCEPT !.buffer = Drop(@, r.offset)],
           ret |-> Len(data),
           readptr |-> readptr + Len(data),
           size |-> readptr + Len(data)]

\* AFF4Image::Write with its return value.
WriteCall(data, cfail, vol) ==
  LET w0 == [WriteState EXCEPT !.buffer = @ \o data]
      r == WriteLoop(w0, 0, cfail, vol)
  IN IF ~r.ok
     THEN [w |-> r.w, ret |-> 0, readptr |-> readptr, size |-> size]
     ELSE [w |-> [r.w EXCEPT !.buffer = Drop(@, r.offset)],
           ret |-> Len(data),
           readptr |-> readptr + Len(data),
           size |-> Max(size, readptr + Len(data))]

\* AFF4Object::Flush of the base class: clears the dirty flag.
BaseFlush == "STATUS_OK"

\* The predicates Flush records.
FlushedResolver ==
  [p \in {"AFF4_TYPE", "AFF4_STORED", "AFF4_IMAGE_CHUNK_SIZE",
          "AFF4_IMAGE_CHUNKS_PER_SEGMENT", "AFF4_STREAM_SIZE",
          "AFF4_IMAGE_COMPRESSION"} |->
     CASE p = "AFF4_TYPE" -> "AFF4_IMAGE_TYPE"
       [] p = "AFF4_STORED" -> "volume_urn"
       [] p = "AFF4_IMAGE_CHUNK_SIZE" -> chunk_size
       [] p = "AFF4_IMAGE_CHUNKS_PER_SEGMENT" -> chunks_per_segment
       [] p = "AFF4_STREAM_SIZE" -> size
       [] OTHER -> compression]

\* The dirty branch of AFF4Image::Flush, up to the resolver calls.
FlushCall(cfail, vol) ==
  LET r1 == FlushChunk(WriteState, buffer, cfail = 1, vol)
      w1 == [r1.w EXCEPT !.buffer = <<>>]
      r2 == _FlushBevy(w1, vol)
  IN [w |-> r2.w, chunk_status |-> r1.status, bevy_status |-> r2.status,
      volume_failed |->
        \/ r2.status # "STATUS_OK"
        \/ compression \in KnownMethods /\ r1.status \in {"NOT_FOUND", "IO_ERROR"}]

(* ---------------------------- read pipeline ---------------------------- *)
\* The switch of _ReadChunkFromBevy over the compression method. For an
\* unexpected method it is LOG(FATAL), which ends the process: "LOG_FATAL" is
\* no status but the mark of that, and Read ends the session on it.
Decompress(cbuffer) ==
  CASE compression = "ZLIB" -> DeCompressZlib_(cbuffer, chunk_size)
    [] compression = "SNAPPY" -> DeCompressSnappy_(cbuffer)
    [] compression = "STORED" -> [status |-> "STATUS_OK", buffer |-> cbuffer]
    [] OTHER -> [status |-> "LOG_FATAL", buffer |-> <<>>]

\* bevy is the open data member: its bytes and its read position.
_ReadChunkFromBevy(result, chunk_id, bevy_stream, index_data, index_size) ==
  LET chunk_id_in_bevy == chunk_id % chunks_per_segment
      bad(status) == [status |-> status, result |-> result, bevy |-> bevy_stream,
                      compressed |-> 0]
  IN IF index_size = 0 THEN bad("IO_ERROR")
     ELSE IF chunk_id_in_bevy >= index_size THEN bad("IO_ERROR")
     ELSE LET start == U32At(index_data, chunk_id_in_bevy)
              \* Both differences are taken as unsigned int: one below 0 (the
              \* stream stands beyond the member's end, the next offset is
              \* the smaller one) wraps to a length beyond the size of any
              \* member, and the read takes all that is left of the member.
              compressed_chunk_size ==
                IF chunk_id_in_bevy = index_size - 1
                THEN IF Len(bevy_stream.data) >= bevy_stream.readptr
                     THEN Len(bevy_stream.data) - bevy_stream.readptr
                     ELSE Len(bevy_stream.data)
                ELSE IF U32At(index_data, chunk_id_in_bevy + 1) >= start
                THEN U32At(index_data, chunk_id_in_bevy + 1) - start
                ELSE Len(bevy_stream.data)
              cbuffer == StreamRead(bevy_stream.data, start, compressed_chunk_size)
              d == Decompress(cbuffer)
          IN IF d.status # "STATUS_OK"
             THEN [bad(d.status) EXCEPT
                     !.bevy = [bevy_stream EXCEPT !.readptr = start + Len(cbuffer)],
                     !.compressed = Len(cbuffer)]
             ELSE [status |-> "STATUS_OK",
                   result |-> result \o d.buffer,
                   bevy |-> [bevy_stream EXCEPT !.readptr = start + Len(cbuffer)],
                   compressed |-> Len(cbuffer)]

\* An AFF4Status returned as the int chunks_read: the values of the enum.
StatusAsInt(status) ==
  CASE status = "STATUS_OK" -> 0
    [] status = "NOT_FOUND" -> -1
    [] status = "MEMORY_ERROR" -> -3
    [] status = "GENERIC_ERROR" -> -4
    [] status = "NOT_IMPLEMENTED" -> -7
    [] status = "IO_ERROR" -> -8
    [] OTHER -> -9

\* The inner loop of _ReadPartial: the chunks of one open bevy.
RECURSIVE ReadBevyChunks(_, _, _, _, _)
ReadBevyChunks(st, bevy_id, bevy_stream, index_data, index_size) ==
  IF st.chunks_to_read > 0
  THEN CHOOSE out \in
         { IF r.status # "STATUS_OK"
           THEN [st EXCEPT !.res = r.status]
           ELSE CHOOSE next \in
                  { IF bevy_id < st1.chunk_id \div chunks_per_segment
                    THEN st1
                    ELSE ReadBevyChunks(st1, bevy_id, r.bevy, index_data,
                                        index_size) :
                    st1 \in {[st EXCEPT !.result = r.result,
                                        !.chunks_to_read = @ - 1,
                                        !.chunk_id = @ + 1,
                                        !.chunks_read = @ + 1]} } : TRUE :
           r \in {_ReadChunkFromBevy(st.result, st.chunk_id, bevy_stream,
                                     index_data, index_size)} } : TRUE
  ELSE st

\* The outer loop of _ReadPartial: one bevy after the other. A member opens
\* at position 0.
RECURSIVE ReadPartialLoop(_)
ReadPartialLoop(st) ==
  IF st.chunks_to_read > 0
  THEN LET bevy_id == st.chunk_id \div chunks_per_segment
           bevy_urn == BevyURN(bevy_id)
           bevy_index_urn == BevyIndexURN(bevy_id)
       IN IF bevy_index_urn \notin DOMAIN volume \/ bevy_urn \notin DOMAIN volume
          THEN [st EXCEPT !.res = "NOT_FOUND", !.ret = -1]
          ELSE LET index_size == Len(volume[bevy_index_urn]) \div 4
                   index_data == StreamRead(volume[bevy_index_urn], 0,
                                            Len(volume[bevy_index_urn]))
               IN CHOOSE out \in
                    { IF r.res # "STATUS_OK"
                      THEN [r EXCEPT !.ret = StatusAsInt(r.res)]
                      ELSE ReadPartialLoop(r) :
                      r \in {ReadBevyChunks(st, bevy_id,
                                            [data |-> volume[bevy_urn],
                                             readptr |-> 0],
                                            index_data, index_size)} } : TRUE
  ELSE [st EXCEPT !.ret = st.chunks_read]

_ReadPartial(chunk_id, chunks_to_read, result) ==
  ReadPartialLoop([chunk_id |-> chunk_id, chunks_to_read |-> chunks_to_read,
                   chunks_read |-> 0, result |-> result,
                   res |-> "STATUS_OK", ret |-> 0])

\* The loop of Read over _ReadPartial.
RECURSIVE ReadLoop(_, _, _)
ReadLoop(chunk_id, chunks_to_read, result) ==
  IF chunks_to_read > 0
  THEN CHOOSE out \in
         { IF r.ret < 0
           THEN [error |-> TRUE, result |-> <<>>, decoded |-> r.chunks_read,
                 res |-> r.res]
           ELSE IF r.ret = 0
           THEN [error |-> FALSE, result |-> r.result, decoded |-> 0,
                 res |-> "STATUS_OK"]
           ELSE ReadLoop(chunk_id, chunks_to_read - r.ret, r.result) :
           r \in {_ReadPartial(chunk_id, chunks_to_read, result)} } : TRUE
  ELSE [error |-> FALSE, result |-> result, decoded |-> 0, res |-> "STATUS_OK"]

\* 2^64 divided by c, 1 <= c <= 32768, by long division in limbs of 16 bits:
\* the low 32 bits of the quotient (hi, lo) and the remainder.
Limb == 65536
Pow64Div(c) ==
  LET r1 == 1 % c
      r2 == (r1 * Limb) % c
      r3 == (r2 * Limb) % c
      r4 == (r3 * Limb) % c
  IN [hi |-> (r3 * Limb) \div c, lo |-> (r4 * Limb) \div c,
      rem |-> (r4 * Limb) % c]

\* int chunks_to_read = length / chunk_size + 1 (line 386) when readptr stands
\* d bytes beyond size: line 382 leaves size - readptr in the size_t length,
\* which is 2^64 - d then; the quotient is cut to the 32 bits of an int.
WrappedChunksToRead(d, c) ==
  LET q == Pow64Div(c)
      lo == q.lo + ((q.rem - d) \div c) + 1
      hi == (q.hi + (lo \div Limb)) % Limb
  IN (IF 2 * hi >= Limb THEN hi - Limb ELSE hi) * Limb + (lo % Limb)

\* string::resize: cut, or pad with '\0'.
Resize(s, n) == IF Len(s) >= n THEN SubSeq(s, 1, n) ELSE s \o Zeros(n - Len(s))

\* Read advancing readptr before it looks at the outcome of the loop.
ReadCall_AdvanceOnError(length) ==
  IF length > AFF4_MAX_READ_LEN
  THEN [out |-> <<>>, readptr |-> readptr, error |-> FALSE, decoded |-> 0,
        res |-> "STATUS_OK"]
  ELSE IF chunk_size = 0
  THEN [out |-> <<>>, readptr |-> readptr, error |-> TRUE, decoded |-> 0,
        res |-> "SIGFPE"]
  ELSE LET len == Min(length, size - readptr)
           initial_chunk_offset == readptr % chunk_size
           chunks_to_read ==
             IF len >= 0 THEN len \div chunk_size + 1
             ELSE WrappedChunksToRead(readptr - size, chunk_size)
           chunk_id == readptr \div chunk_size
       IN IF chunks_to_read > 0 /\ chunks_per_segment = 0
          THEN [out |-> <<>>, readptr |-> readptr, error |-> TRUE,
                decoded |-> 0, res |-> "SIGFPE"]
          ELSE LET r == ReadLoop(chunk_id, chunks_to_read, <<>>)
               IN IF r.error
                  THEN [out |-> <<>>, readptr |-> readptr + len, error |-> TRUE,
                        decoded |-> r.decoded, res |-> r.res]
                  ELSE IF len < 0
                  THEN [out |-> <<>>, readptr |-> readptr, error |-> TRUE,
                        decoded |-> 0, res |-> "LENGTH_ERROR"]
                  ELSE [out |-> Resize(Drop(r.result, initial_chunk_offset), len),
                        readptr |-> readptr + len,
                        error |-> FALSE, decoded |-> 0, res |-> "STATUS_OK"]

\* Read without the clamp of length to what is left of the stream.
ReadCall_Unclamped(length) ==
  IF length > AFF4_MAX_READ_LEN
  THEN [out |-> <<>>, readptr |-> readptr, error |-> FALSE, decoded |-> 0,
        res |-> "STATUS_OK"]
  ELSE IF chunk_size = 0
  THEN [out |-> <<>>, readptr |-> readptr, error |-> TRUE, decoded |-> 0,
        res |-> "SIGFPE"]
  ELSE LET len == length
           initial_chunk_offset == readptr % chunk_size
           chunks_to_read ==
             IF len >= 0 THEN len \div chunk_size + 1
             ELSE WrappedChunksToRead(readptr - size, chunk_size)
           chunk_id == readptr \div chunk_size
       IN IF chunks_to_read > 0 /\ chunks_per_segment = 0
          THEN [out |-> <<>>, readptr |-> readptr, error |-> TRUE,
                decoded |-> 0, res |-> "SIGFPE"]
          ELSE LET r == ReadLoop(chunk_id, chunks_to_read, <<>>)
               IN IF r.error
                  THEN [out |-> <<>>, readptr |-> readptr, error |-> TRUE,
                        decoded |-> r.decoded, res |-> r.res]
                  ELSE IF len < 0
                  THEN [out |-> <<>>, readptr |-> readptr, error |-> TRUE,
                        decoded |-> 0, res |-> "LENGTH_ERROR"]
                  ELSE [out |-> Resize(Drop(r.result, initial_chunk_offset), len),
                        readptr |-> readptr + len,
                        error |-> FALSE, decoded |-> 0, res |-> "STATUS_OK"]

\* AFF4Image::Read with its return value. With chunk_size = 0 the division
\* of line 384 and with chunks_per_segment = 0 that of line 334, in the first
\* chunk read, is an integer division by 0: the process is killed by SIGFPE,
\* res says so. res is "LOG_FATAL" when the decoding of a chunk ended the
\* process. With readptr beyond size the length of line 382 is below 0 and as
\* a size_t near 2^64: when no chunk stopped the call before, the resize of
\* line 409 throws std::length_error, which nothing catches (res
\* "LENGTH_ERROR"). The reserve of line 391 is taken to succeed.
ReadCall(length) ==
  IF length > AFF4_MAX_READ_LEN
  THEN [out |-> <<>>, readptr |-> readptr, error |-> FALSE, decoded |-> 0,
        res |-> "STATUS_OK"]
  ELSE IF chunk_size = 0
  THEN [out |-> <<>>, readptr |-> readptr, error |-> TRUE, decoded |-> 0,
        res |-> "SIGFPE"]
  ELSE LET len == Min(length, size - readptr)
           initial_chunk_offset == readptr % chunk_size
           chunks_to_read ==
             IF len >= 0 THEN len \div chunk_size + 1
             ELSE WrappedChunksToRead(readptr - size, chunk_size)
           chunk_id == readptr \div chunk_size
       IN IF chunks_to_read > 0 /\ chunks_per_segment = 0
          THEN [out |-> <<>>, readptr |-> readptr, error |-> TRUE,
                decoded |-> 0, res |-> "SIGFPE"]
          ELSE LET r == ReadLoop(chunk_id, chunks_to_read, <<>>)
               IN IF r.error
                  THEN [out |-> <<>>, readptr |-> readptr, error |-> TRUE,
                        decoded |-> r.decoded, res |-> r.res]
                  ELSE IF len < 0
                  THEN [out |-> <<>>, readptr |-> readptr, error |-> TRUE,
                        decoded |-> 0, res |-> "LENGTH_ERROR"]
                  ELSE [out |-> Resize(Drop(r.result, initial_chunk_offset), len),
                        readptr |-> readptr + len,
                        error |-> FALSE, decoded |-> 0, res |-> "STATUS_OK"]

(* -------------------------------- load --------------------------------- *)
\* resolver->Get(urn, predicate, value) == STATUS_OK: the predicate is recorded.
Has(predicate) == predicate \in DOMAIN resolver

\* The method a compression URN names; AFF4_IMAGE_COMPRESSION_ENUM_UNKNOWN for
\* any other URN.
CompressionMethodFromURN(compression_urn) ==
  IF compression_urn \in KnownMethods THEN compression_urn ELSE "UNKNOWN"

\* The parameters of the stream as LoadFromURN finds them.
StreamParameters ==
  [chunk_size |-> chunk_size, chunks_per_segment |-> chunks_per_segment,
   size |-> size, compression |-> compression]

\* LoadFromURN taking ZLIB for a compression URN it does not know.
LoadFromURN_FallBackToZlib ==
  IF ~Has("AFF4_STORED")
  THEN [status |-> "NOT_FOUND", p |-> StreamParameters]
  ELSE LET p1 == IF Has("AFF4_IMAGE_CHUNK_SIZE")
                 THEN [StreamParameters EXCEPT
                         !.chunk_size = resolver["AFF4_IMAGE_CHUNK_SIZE"]]
                 ELSE StreamParameters
           p2 == IF Has("AFF4_IMAGE_CHUNKS_PER_SEGMENT")
                 THEN [p1 EXCEPT !.chunks_per_segment =
                                   resolver["AFF4_IMAGE_CHUNKS_PER_SEGMENT"]]
                 ELSE p1
           p3 == IF Has("AFF4_STREAM_SIZE")
                 THEN [p2 EXCEPT !.size = resolver["AFF4_STREAM_SIZE"]]
                 ELSE p2
       IN IF Has("AFF4_IMAGE_COMPRESSION")
          THEN LET m == CompressionMethodFromURN(resolver["AFF4_IMAGE_COMPRESSION"])
               IN [status |-> "STATUS_OK",
                   p |-> [p3 EXCEPT !.compression =
                                      IF m = "UNKNOWN" THEN "ZLIB" ELSE m]]
          ELSE [status |-> "STATUS_OK", p |-> p3]

\* AFF4Image::LoadFromURN: its status and the parameters it leaves.
LoadFromURN ==
  IF ~Has("AFF4_STORED")
  THEN [status |-> "NOT_FOUND", p |-> StreamParameters]
  ELSE LET p1 == IF Has("AFF4_IMAGE_CHUNK_SIZE")
                 THEN [StreamParameters EXCEPT
                         !.chunk_size = resolver["AFF4_IMAGE_CHUNK_SIZE"]]
                 ELSE StreamParameters
           p2 == IF Has("AFF4_IMAGE_CHUNKS_PER_SEGMENT")
                 THEN [p1 EXCEPT !.chunks_per_segment =
                                   resolver["AFF4_IMAGE_CHUNKS_PER_SEGMENT"]]
                 ELSE p1
           p3 == IF Has("AFF4_STREAM_SIZE")
                 THEN [p2 EXCEPT !.size = resolver["AFF4_STREAM_SIZE"]]
                 ELSE p2
       IN IF Has("AFF4_IMAGE_COMPRESSION")
          THEN LET m == CompressionMethodFromURN(resolver["AFF4_IMAGE_COMPRESSION"])
                   p4 == [p3 EXCEPT !.compression = m]
               IN IF m = "UNKNOWN"
                  THEN [status |-> "NOT_IMPLEMENTED", p |-> p4]
                  ELSE [status |-> "STATUS_OK", p |-> p4]
          ELSE [status |-> "STATUS_OK", p |-> p3]

\* A predicate with the value recorded for it, if one is (opt is <<>> or <<v>>).
Recorded(predicate, opt) == IF opt = <<>> THEN <<>> ELSE (predicate :> opt[1])
Optional(values) == {<<>>} \cup {<<v>> : v \in values}

\* What the resolver may hold for a stream that is opened by its URN: each
\* predicate recorded or not, the integers 0 or a positive value, the
\* compression URN one of the known methods or another URN.
Metadata ==
  {(("AFF4_TYPE" :> "AFF4_IMAGE_TYPE") @@ Recorded("AFF4_STORED", st)
      @@ Recorded("AFF4_IMAGE_CHUNK_SIZE", cs)
      @@ Recorded("AFF4_IMAGE_CHUNKS_PER_SEGMENT", cps)
      @@ Recorded("AFF4_STREAM_SIZE", sz)
      @@ Recorded("AFF4_IMAGE_COMPRESSION", cm)) :
     st \in Optional({"volume_urn"}),
     cs \in Optional({0, MaxChunkSize}),
     cps \in Optional({0, MaxChunksPerSegment}),
     sz \in Optional({0, MaxTotal}),
     cm \in Optional(KnownMethods \cup {"other_urn"})}

(* ------------------------------ actions -------------------------------- *)
\* The last call: op, and per op: Read's length (arg), readptr before it
\* (from), the bytes returned (out), whether it met an error (error) and the
\* chunks decoded before the error (ret); Write's return value (ret) and
\* whether a collaborator failed during it (hit); Flush's status (status),
\* whether a collaborator failed (hit), whether the volume did (error) and
\* whether the stream was dirty (dirty); Load's status; for the decoding of one
\* chunk, the chunk (arg), the position of the bevy stream before it (from),
\* the compressed bytes read (ret) and whether it met an error (error).
NoCall == [op |-> "none", arg |-> 0, from |-> 0, ret |-> 0, out |-> <<>>,
           status |-> "", error |-> FALSE, hit |-> FALSE, dirty |-> FALSE]

\* A stream made by NewAFF4Image and configured by its owner ("created"), or
\* an object the factory constructed for a URN, before LoadFromURN runs
\* ("constructed").
Init ==
  /\ \/ /\ opened = "created"
        /\ chunk_size \in 1..MaxChunkSize
        /\ chunks_per_segment \in 1..MaxChunksPerSegment
        /\ compression \in Methods
        /\ resolver = [p \in {"AFF4_TYPE", "AFF4_STORED"} |->
                         IF p = "AFF4_TYPE" THEN "AFF4_IMAGE_TYPE" ELSE "volume_urn"]
     \/ /\ opened = "constructed"
        /\ chunk_size = DefaultChunkSize
        /\ chunks_per_segment = DefaultChunksPerSegment
        /\ compression = DefaultCompression
        /\ resolver \in Metadata
  /\ size = 0 /\ readptr = 0 /\ dirty = FALSE
  /\ buffer = <<>> /\ bevy = <<>> /\ bevy_index = <<>>
  /\ chunk_count_in_bevy = 0 /\ bevy_number = 0
  /\ volume = <<>>
  /\ last = NoCall
  /\ written = <<>> /\ submitted = <<>> /\ nflush = 0
  /\ appending = TRUE /\ failed = FALSE /\ corrupted = FALSE

\* The object is a stream in use: created, or loaded with STATUS_OK.
Usable == opened \in {"created", "loaded"}

Load ==
  /\ opened = "constructed"
  /\ LET r == LoadFromURN
     IN /\ chunk_size' = r.p.chunk_size
        /\ chunks_per_segment' = r.p.chunks_per_segment
        /\ size' = r.p.size
        /\ compression' = r.p.compression
        /\ opened' = IF r.status = "STATUS_OK" THEN "loaded" ELSE "rejected"
        /\ last' = [NoCall EXCEPT !.op = "Load", !.status = r.status]
  /\ UNCHANGED <<readptr, dirty, buffer, bevy, bevy_index, chunk_count_in_bevy,
                 bevy_number, volume, resolver, written, submitted, nflush,
                 appending, failed, corrupted>>

Install(w) ==
  /\ buffer' = w.buffer
  /\ bevy' = w.bevy
  /\ bevy_index' = w.bevy_index
  /\ chunk_count_in_bevy' = w.chunk_count_in_bevy
  /\ bevy_number' = w.bevy_number
  /\ volume' = w.volume
  /\ submitted' = w.submitted
  /\ failed' = (failed \/ w.hit)

Write(data, cfail, vol) ==
  /\ opened = "created"
  /\ Len(written) + Len(data) <= MaxTotal
  /\ nflush < MaxFlush
  /\ ~corrupted /\ ~failed
  /\ nflush > 0 => readptr = size
  /\ (cfail # 0 \/ vol # "ok") => (nflush = 0 /\ appending)
  /\ LET r == WriteCall(data, cfail, vol)
     IN /\ Install(r.w)
        /\ readptr' = r.readptr
        /\ size' = r.size
        /\ last' = [NoCall EXCEPT !.op = "Write", !.ret = r.ret, !.hit = r.w.hit]
  /\ dirty' = TRUE
  /\ written' = written \o data
  /\ appending' = (appending /\ readptr = size)
  /\ UNCHANGED <<chunk_size, chunks_per_segment, compression, resolver,
                 nflush, corrupted, opened>>

\* Flush running its dirty branch whether the stream is dirty or not.
Flush_WithoutDirtyTest(cfail, vol) ==
  /\ Usable
  /\ (cfail # 0 \/ vol # "ok") => (dirty /\ ~failed)
  /\ ~corrupted
  /\ LET r == FlushCall(cfail, vol)
     IN /\ Install(r.w)
        /\ resolver' = FlushedResolver
        /\ nflush' = nflush + 1
        /\ last' = [NoCall EXCEPT !.op = "Flush",
                      !.status = BaseFlush, !.hit = r.w.hit,
                      !.error = r.volume_failed, !.dirty = dirty]
  /\ dirty' = FALSE
  /\ UNCHANGED <<chunk_size, chunks_per_segment, compression, size, readptr,
                 written, appending, corrupted, opened>>

Flush(cfail, vol) ==
  /\ Usable
  /\ (cfail # 0 \/ vol # "ok") => (dirty /\ ~failed)
  /\ ~corrupted
  /\ IF dirty
     THEN LET r == FlushCall(cfail, vol)
          IN /\ Install(r.w)
             /\ resolver' = FlushedResolver
             /\ nflush' = nflush + 1
             /\ last' = [NoCall EXCEPT !.op = "Flush",
                           !.status = BaseFlush, !.hit = r.w.hit,
                           !.error = r.volume_failed, !.dirty = TRUE]
     ELSE /\ last' = [NoCall EXCEPT !.op = "Flush", !.status = BaseFlush]
          /\ UNCHANGED <<buffer, bevy, bevy_index, chunk_count_in_bevy,
                         bevy_number, volume, submitted, failed,
                         resolver, nflush>>
  /\ dirty' = FALSE
  /\ UNCHANGED <<chunk_size, chunks_per_segment, compression, size, readptr,
                 written, appending, corrupted, opened>>

\* AFF4Stream::Seek(offset, SEEK_SET) to a position within the stream.
Seek(offset) ==
  /\ Usable
  /\ ~failed
  /\ last.op # "Seek"
  /\ offset \in 0..size
  /\ offset # readptr
  /\ readptr' = offset
  /\ last' = [NoCall EXCEPT !.op = "Seek"]
  /\ UNCHANGED <<chunk_size, chunks_per_segment, compression, size, dirty,
                 buffer, bevy, bevy_index, chunk_count_in_bevy, bevy_number,
                 volume, resolver, history>>

\* The call did not return: the process ended in it.
Ended(res) == res \in {"SIGFPE", "LOG_FATAL", "LENGTH_ERROR"}

\* Read marking the stream dirty, as Write does.
Read_MarksDirty(length) ==
  /\ Usable
  /\ ~failed /\ ~dirty
  /\ LET r == ReadCall(length)
     IN /\ readptr' = r.readptr
        /\ last' = [NoCall EXCEPT !.op = "Read", !.arg = length, !.from = readptr,
                      !.out = r.out, !.error = r.error, !.ret = r.decoded,
                      !.status = IF Ended(r.res) THEN r.res ELSE ""]
        /\ opened' = IF Ended(r.res) THEN "ended" ELSE opened
  /\ dirty' = TRUE
  /\ UNCHANGED <<chunk_size, chunks_per_segment, compression, size,
                 buffer, bevy, bevy_index, chunk_count_in_bevy, bevy_number,
                 volume, resolver, written, submitted, nflush, appending,
                 failed, corrupted>>

\* Read, on a stream whose writes are flushed. A call that ends the process
\* (status SIGFPE, LOG_FATAL or LENGTH_ERROR) leaves an object nothing can be called on.
Read(length) ==
  /\ Usable
  /\ ~failed /\ ~dirty
  /\ LET r == ReadCall(length)
     IN /\ readptr' = r.readptr
        /\ last' = [NoCall EXCEPT !.op = "Read", !.arg = length, !.from = readptr,
                      !.out = r.out, !.error = r.error, !.ret = r.decoded,
                      !.status = IF Ended(r.res) THEN r.res ELSE ""]
        /\ opened' = IF Ended(r.res) THEN "ended" ELSE opened
  /\ UNCHANGED <<chunk_size, chunks_per_segment, compression, size, dirty,
                 buffer, bevy, bevy_index, chunk_count_in_bevy, bevy_number,
                 volume, resolver, written, submitted, nflush, appending,
                 failed, corrupted>>

\* One call of _ReadChunkFromBevy on a sealed stream: chunk chunk_id is
\* decoded from its bevy, whose stream stands at position 0, as when the
\* member was just opened, or at its end, as when it was read to the end
\* before.
ReadChunkFromBevy(chunk_id, at_end) ==
  /\ Usable /\ ~failed /\ ~corrupted /\ ~dirty
  /\ nflush = 1 /\ appending /\ last.op = "Flush"
  /\ compression \in KnownMethods
  /\ LET bevy_id == chunk_id \div chunks_per_segment
         bevy_urn == BevyURN(bevy_id)
         bevy_index_urn == BevyIndexURN(bevy_id)
     IN /\ bevy_urn \in DOMAIN volume /\ bevy_index_urn \in DOMAIN volume
        /\ LET pos == IF at_end THEN Len(volume[bevy_urn]) ELSE 0
               r == _ReadChunkFromBevy(<<>>, chunk_id,
                                       [data |-> volume[bevy_urn], readptr |-> pos],
                                       volume[bevy_index_urn],
                                       Len(volume[bevy_index_urn]) \div 4)
           IN last' = [NoCall EXCEPT !.op = "ReadChunk", !.arg = chunk_id,
                         !.from = pos, !.ret = r.compressed,
                         !.error = r.status # "STATUS_OK"]
  /\ UNCHANGED <<stream, volume, resolver, history>>

(* Damage to the volume between sealing the stream and reading it back. *)
Damage(new_volume) ==
  /\ ~corrupted /\ ~dirty /\ last.op = "Flush"
  /\ ~failed /\ appending /\ nflush = 1
  /\ volume' = new_volume
  /\ corrupted' = TRUE
  /\ last' = NoCall
  /\ UNCHANGED <<stream, resolver, written, submitted, nflush, appending, failed,
                 opened>>

\* A bevy index member cut to its first `entries` entries (0: emptied).
TruncateIndex(b, entries) ==
  /\ BevyIndexURN(b) \in DOMAIN volume
  /\ 4 * entries < Len(volume[BevyIndexURN(b)])
  /\ Damage([volume EXCEPT ![BevyIndexURN(b)] = SubSeq(@, 1, 4 * entries)])

\* A member that can no longer be opened.
RemoveMember(urn) ==
  /\ urn \in DOMAIN volume
  /\ Damage([u \in DOMAIN volume \ {urn} |-> volume[u]])

\* A bevy data member whose first byte is overwritten.
DamageChunk(b) ==
  /\ BevyURN(b) \in DOMAIN volume
  /\ Len(volume[BevyURN(b)]) > 0
  /\ Damage([volume EXCEPT ![BevyURN(b)][1] = 255])

Next ==
  \/ Load
  \/ \E n \in 0..MaxChunkSize, env \in Environments :
       Write(Pattern(n), env.cfail, env.vol)
  \/ \E env \in Environments : Flush(env.cfail, env.vol)
  \/ \E offset \in 0..MaxTotal : Seek(offset)
  \/ \E length \in (0..size - readptr + 1) \cup {AFF4_MAX_READ_LEN + 1} : Read(length)
  \/ \E chunk_id \in 0..MaxTotal, at_end \in BOOLEAN :
       ReadChunkFromBevy(chunk_id, at_end)
  \/ \E b \in 0..MaxTotal, entries \in 0..MaxChunksPerSegment : TruncateIndex(b, entries)
  \/ \E b \in 0..MaxTotal, index \in BOOLEAN :
       RemoveMember([bevy |-> b, index |-> index])
  \/ \E b \in 0..MaxTotal : DamageChunk(b)

Spec == Init /\ [][Next]_vars

(* --------------------------- persisted layout -------------------------- *)
\* What the members of the volume hold, read as the format lays them out: the
\* index member is an array of uint32 offsets into the data member, a chunk
\* runs from its offset to the next offset, the last one to the member's end.
BevyIds == {u.bevy : u \in DOMAIN volume}
HasBevy(b) == BevyURN(b) \in DOMAIN volume /\ BevyIndexURN(b) \in DOMAIN volume
IndexLen(b) == Len(volume[BevyIndexURN(b)]) \div 4
IndexOf(b, j) == U32At(volume[BevyIndexURN(b)], j)
StoredChunk(b, j) ==
  LET data == volume[BevyURN(b)]
  IN SubSeq(data, IndexOf(b, j) + 1,
            IF j = IndexLen(b) - 1 THEN Len(data) ELSE IndexOf(b, j + 1))
DecodedChunk(b, j) == Decompress(StoredChunk(b, j))

\* Every (bevy, position) an index member lists.
StoredChunkIds == {c \in BevyIds \X (0..MaxTotal + MaxFlush) :
                     HasBevy(c[1]) /\ c[2] < IndexLen(c[1])}

RECURSIVE SumLen(_)
SumLen(cs) ==
  IF cs = {} THEN 0
  ELSE LET c == CHOOSE x \in cs : TRUE
       IN Len(DecodedChunk(c[1], c[2]).buffer) + SumLen(cs \ {c})
PayloadSum == SumLen(StoredChunkIds)

\* The data members of bevies 0..n-1, one after the other.
RECURSIVE ConcatBevies(_)
ConcatBevies(n) ==
  IF n = 0 THEN <<>> ELSE ConcatBevies(n - 1) \o volume[BevyURN(n - 1)]

\* The k-th chunk of the Write inputs (k counted from 0) and their number.
CutChunk(k) == SubSeq(written, k * chunk_size + 1,
                      Min((k + 1) * chunk_size, Len(written)))
CeilDiv(a, b) == (a + b - 1) \div b

\* One dirty Flush has sealed the session, nothing was written since, and no
\* collaborator failed or was damaged.
Sealed == /\ nflush = 1 /\ ~dirty /\ ~failed /\ ~corrupted
          /\ compression \in KnownMethods

(* ------------------------------- claims -------------------------------- *)
\* C1 (round trip): in a session of Writes at the end of the stream sealed by
\* one Flush, with no failure, Seek(0) and Read(total length) returns the
\* concatenation of the Write inputs.
C1_RoundTrip ==
  (Sealed /\ appending /\ last.op = "Read" /\ last.from = 0
     /\ last.arg = Len(written))
    => last.out = written

\* C2 (random access): in such a session every Read of len bytes at off with
\* off + len <= size returns bytes [off, off + len) of the concatenation.
C2_RandomAccess ==
  (Sealed /\ appending /\ last.op = "Read" /\ last.from + last.arg <= size)
    => last.out = SubSeq(written, last.from + 1, last.from + last.arg)

\* The volume a single Write of all the session's bytes, then Flush, leaves.
OneShotVolume ==
  LET w0 == [buffer |-> written, bevy |-> <<>>, bevy_index |-> <<>>,
             chunk_count_in_bevy |-> 0, bevy_number |-> 0, volume |-> <<>>,
             submitted |-> <<>>, hit |-> FALSE]
      r == WriteLoop(w0, 0, 0, "ok")
      w1 == [r.w EXCEPT !.buffer = Drop(@, r.offset)]
      f1 == FlushChunk(w1, w1.buffer, FALSE, "ok")
      f2 == _FlushBevy([f1.w EXCEPT !.buffer = <<>>], "ok")
  IN f2.w.volume

\* C3 (chunk boundary invariance): however the bytes were split across the
\* Write calls of a session sealed by one Flush (zero-length Writes and Seeks
\* between them included), the volume holds the members, byte for byte,
\* that one Write of the concatenation followed by Flush produces.
C3_SplitInvariance == Sealed => volume = OneShotVolume

\* C3 witness: a sealed session of more bytes than one Write takes (so at
\* least two Writes), which left two bevies or more.
C3_Witness ==
  /\ Sealed /\ Len(written) > MaxChunkSize
  /\ HasBevy(1) /\ Len(buffer) = 0 /\ last.op = "Flush"

\* C4 (chunk placement and ordering): in a sealed session the k-th chunk cut
\* from the input is the chunk at position k mod chunks_per_segment of bevy
\* k div chunks_per_segment, the bevies persisted are 0..n-1 (data and index
\* member each), and under STORED the data members in bevy order concatenate
\* to the Write inputs.
C4_Placement ==
  Sealed =>
    /\ \A k \in 0..CeilDiv(Len(written), chunk_size) - 1 :
         LET b == k \div chunks_per_segment
             j == k % chunks_per_segment
         IN /\ HasBevy(b)
            /\ j < IndexLen(b)
            /\ DecodedChunk(b, j) = [status |-> "STATUS_OK", buffer |-> CutChunk(k)]
    /\ \E n \in 0..MaxTotal + 1 :
         /\ DOMAIN volume = {BevyURN(b) : b \in 0..n - 1}
                              \cup {BevyIndexURN(b) : b \in 0..n - 1}
         /\ n = bevy_number
         /\ compression = "STORED" => ConcatBevies(n) = written

\* C4 witness: a sealed STORED session of bevies of several chunks whose
\* input fills one bevy and part of a second.
C4_Witness ==
  /\ Sealed /\ compression = "STORED" /\ chunks_per_segment > 1
  /\ Len(written) > chunk_size * chunks_per_segment
  /\ Len(written) % (chunk_size * chunks_per_segment) # 0
  /\ HasBevy(1) /\ last.op = "Flush"

\* C5 (chunk lengths): in a sealed session with size > 0 every persisted chunk
\* but the stream's last decompresses to chunk_size bytes, the last one to
\* size mod chunk_size (chunk_size when that is 0), and there are
\* ceil(size / chunk_size) chunks.
C5_ChunkLengths ==
  (Sealed /\ appending /\ size > 0) =>
    LET top == CHOOSE b \in BevyIds : \A o \in BevyIds : o <= b
        final == <<top, IndexLen(top) - 1>>
        tail == IF size % chunk_size = 0 THEN chunk_size ELSE size % chunk_size
    IN /\ BevyIds # {}
       /\ Cardinality(StoredChunkIds) = CeilDiv(size, chunk_size)
       /\ \A c \in StoredChunkIds :
            Len(DecodedChunk(c[1], c[2]).buffer) = IF c = final THEN tail ELSE chunk_size

\* C6 (size equals persisted payload): after Writes, Seeks and Reads and one
\* Flush with no failure, size and the recorded AFF4_STREAM_SIZE are the sum
\* of the decompressed lengths of all persisted chunks.
C6_SizeIsPayload ==
  (Sealed /\ last.op = "Flush") =>
    /\ size = PayloadSum
    /\ resolver["AFF4_STREAM_SIZE"] = PayloadSum

\* C7 (index consistency): after any Writes and Flushes with no failure every
\* persisted index holds at most chunks_per_segment entries, only the
\* highest-numbered bevy holds fewer, and within an index
\* index[i] < index[i+1] <= size of the data member.
C7_IndexConsistency ==
  (~failed /\ ~corrupted /\ compression \in KnownMethods) =>
    \A b \in BevyIds :
      /\ HasBevy(b)
      /\ IndexLen(b) <= chunks_per_segment
      /\ IndexLen(b) < chunks_per_segment => \A o \in BevyIds : o <= b
      /\ \A i \in 0..IndexLen(b) - 2 :
           /\ IndexOf(b, i) < IndexOf(b, i + 1)
           /\ IndexOf(b, i + 1) <= Len(volume[BevyURN(b)])

\* C8 (write failure reporting): a Write during which the chunk flusher failed
\* (compression, unknown method or bevy flush) returns 0 and advances neither
\* readptr nor size.
C8_WriteFailure ==
  [][(last'.op = "Write" /\ last'.hit)
       => (last'.ret = 0 /\ readptr' = readptr /\ size' = size)]_vars

\* Every chunk the chunk flusher took is in the volume, in order.
SubmittedPersisted ==
  /\ \A k \in 1..Len(submitted) :
       \E c \in StoredChunkIds : DecodedChunk(c[1], c[2]).buffer = submitted[k]
  /\ PayloadSum >= Len(written)

\* C9 (flush and metadata under failure): a Flush that returns STATUS_OK has
\* every submitted chunk persisted and recorded the size of the persisted
\* data; a Flush during which the volume failed returns another status.
C9_FlushStatus ==
  (last.op = "Flush" /\ nflush >= 1 /\ ~corrupted /\ compression \in KnownMethods) =>
    /\ last.status = "STATUS_OK" =>
         (SubmittedPersisted /\ resolver["AFF4_STREAM_SIZE"] = PayloadSum)
    /\ last.error => last.status # "STATUS_OK"

\* C10 (read error handling): a Read that meets an error (a member that does
\* not open, an empty or short index, a chunk that does not decompress) and
\* returns, returns no bytes and leaves readptr where it was.
C10_ReadErrors ==
  (last.op = "Read" /\ last.error /\ ~Ended(last.status))
    => (last.out = <<>> /\ readptr = last.from)

\* C10 witness: a Read of a damaged volume that had decoded a chunk before it
\* met the error.
C10_Witness ==
  /\ last.op = "Read" /\ last.error /\ last.ret >= 1 /\ corrupted
  /\ last.arg > 0 /\ ~Ended(last.status)

\* C11 (idempotent flush): a Flush of a stream that is not dirty creates no
\* member, changes no resolver predicate and leaves buffer, bevy builder,
\* chunk_count_in_bevy, bevy_number and size as they were.
C11_IdempotentFlush ==
  [][(last'.op = "Flush" /\ ~last'.dirty)
       => UNCHANGED <<volume, resolver, buffer, bevy, bevy_index,
                      chunk_count_in_bevy, bevy_number, size>>]_vars

\* C11 witness: a Flush of a stream that was not dirty, after a dirty Flush
\* had persisted members.
C11_Witness ==
  /\ last.op = "Flush" /\ ~last.dirty /\ ~dirty
  /\ nflush >= 1 /\ HasBevy(0)

\* C12 (size monotonicity): no Write, Read, Seek or Flush makes size smaller;
\* a Write that returns the n bytes it was given advances readptr by n and
\* sets size to the larger of the old size and the new readptr; Read, Seek and
\* Flush leave size as it was.
C12_SizeMonotone ==
  [][/\ last'.op \in {"Write", "Read", "Seek", "Flush"} => size' >= size
     /\ (last'.op = "Write" /\ last'.ret = Len(written') - Len(written))
          => /\ readptr' = readptr + last'.ret
             /\ size' = Max(size, readptr')
     /\ last'.op \in {"Read", "Seek", "Flush"} => size' = size]_vars

\* C12 witness: a Write of at least one byte that ended short of the end of
\* the stream (the old size is the larger one).
C12_Witness ==
  /\ last.op = "Write" /\ last.ret > 0 /\ readptr < size

\* C13 (Load outcomes): Load returns NOT_FOUND when no stored-in value is
\* recorded, and then leaves the parameters as constructed; otherwise
\* NOT_IMPLEMENTED exactly when a compression URN is recorded that names no
\* known method; otherwise STATUS_OK with chunk_size, chunks_per_segment and
\* size as recorded, or as constructed when not recorded, and the compression
\* recorded, or ZLIB. Load creates no bevy member.
C13_LoadOutcomes ==
  last.op = "Load" =>
    LET RecordedOr(predicate, default) ==
          IF Has(predicate) THEN resolver[predicate] ELSE default
    IN /\ ~Has("AFF4_STORED") =>
            /\ last.status = "NOT_FOUND"
            /\ chunk_size = DefaultChunkSize
            /\ chunks_per_segment = DefaultChunksPerSegment
            /\ compression = DefaultCompression
            /\ size = 0
       /\ Has("AFF4_STORED") =>
            /\ last.status = "NOT_IMPLEMENTED"
                 <=> /\ Has("AFF4_IMAGE_COMPRESSION")
                     /\ resolver["AFF4_IMAGE_COMPRESSION"] \notin KnownMethods
            /\ last.status # "NOT_IMPLEMENTED" =>
                 /\ last.status = "STATUS_OK"
                 /\ chunk_size = RecordedOr("AFF4_IMAGE_CHUNK_SIZE", DefaultChunkSize)
                 /\ chunks_per_segment =
                      RecordedOr("AFF4_IMAGE_CHUNKS_PER_SEGMENT",
                                 DefaultChunksPerSegment)
                 /\ size = RecordedOr("AFF4_STREAM_SIZE", 0)
                 /\ compression = RecordedOr("AFF4_IMAGE_COMPRESSION", "ZLIB")
       /\ BevyIds = {}

\* C13 witness: a Load that returned STATUS_OK, took the chunk size and the
\* size from the resolver and found no compression URN.
C13_Witness ==
  /\ last.op = "Load" /\ last.status = "STATUS_OK"
  /\ Has("AFF4_IMAGE_CHUNK_SIZE") /\ chunk_size = resolver["AFF4_IMAGE_CHUNK_SIZE"]
  /\ Has("AFF4_STREAM_SIZE") /\ size = MaxTotal
  /\ ~Has("AFF4_IMAGE_COMPRESSION") /\ compression = "ZLIB"

\* C14 (Read frame): a Read, whether it returns bytes or meets an error,
\* changes nothing of the stream but readptr: size, buffer, the bevy builder,
\* chunk_count_in_bevy, bevy_number, the dirty flag, the resolver and the
\* members of the volume stay as they were.
C14_ReadFrame ==
  [][last'.op = "Read"
       => UNCHANGED <<size, buffer, bevy, bevy_index, chunk_count_in_bevy,
                      bevy_number, dirty, resolver, volume, chunk_size,
                      chunks_per_segment, compression>>]_vars

\* C14 witness: a Read that returned bytes and moved readptr, of a stream of
\* two bevies or more whose metadata is recorded.
C14_Witness ==
  /\ last.op = "Read" /\ ~last.error /\ Len(last.out) > 0
  /\ readptr > last.from /\ HasBevy(1) /\ Has("AFF4_STREAM_SIZE")

\* C15 (compressed size of the last chunk in a bevy): decoding the chunk at
\* position j of a bevy reads (size of the data member) - index[j] compressed
\* bytes when j is the last position of the index, and index[j+1] - index[j]
\* otherwise, wherever the bevy stream stands when the decoding starts.
C15_CompressedSize ==
  (last.op = "ReadChunk" /\ last.arg % chunks_per_segment
                              < IndexLen(last.arg \div chunks_per_segment)) =>
    LET b == last.arg \div chunks_per_segment
        j == last.arg % chunks_per_segment
    IN last.ret = IF j = IndexLen(b) - 1
                  THEN Len(volume[BevyURN(b)]) - IndexOf(b, j)
                  ELSE IndexOf(b, j + 1) - IndexOf(b, j)

\* C16 (bevy flusher effect): after a dirty Flush with no collaborator failure
\* the bevy flusher has persisted every chunk the builder held, also chunks
\* of zero compressed bytes: the builder's data and index are empty,
\* chunk_count_in_bevy is 0 and the indexes of the volume list every chunk
\* the chunk flusher took.
C16_FlusherEffect ==
  (last.op = "Flush" /\ last.dirty /\ ~failed /\ ~corrupted
     /\ compression \in KnownMethods) =>
    /\ bevy = <<>> /\ bevy_index = <<>>
    /\ chunk_count_in_bevy = 0
    /\ Cardinality(StoredChunkIds) = Len(submitted)

\* C17 (bevy counter): in every state the bevies with persisted members are
\* exactly 0..bevy_number-1, also after a bevy flush that failed at the
\* volume; bevy_number counts the bevy flushes that wrote their two members.
C17_BevyCounter ==
  ~corrupted =>
    /\ BevyIds = 0..bevy_number - 1
    /\ \A b \in BevyIds : HasBevy(b)

\* C18 (Read length clamp): a Read(length) with length <= AFF4_MAX_READ_LEN
\* at readptr <= size that meets no error (it returns, and none of the chunks
\* it needs fails to load) returns exactly
\* min(length, size - readptr) bytes and advances readptr by as many, so
\* readptr <= size still holds; a Read with length > AFF4_MAX_READ_LEN
\* returns nothing and leaves readptr where it was.
C18_ReadClamp ==
  last.op = "Read" =>
    /\ (last.arg <= AFF4_MAX_READ_LEN /\ last.from <= size /\ ~last.error) =>
         /\ Len(last.out) = Min(last.arg, size - last.from)
         /\ readptr = last.from + Min(last.arg, size - last.from)
         /\ readptr <= size
    /\ last.arg > AFF4_MAX_READ_LEN =>
         (last.out = <<>> /\ readptr = last.from)

\* C18 witness: a Read that asked for more than was left of the stream and
\* returned what was left.
C18_Witness ==
  /\ last.op = "Read" /\ ~last.error /\ last.arg <= AFF4_MAX_READ_LEN
  /\ last.arg > size - last.from /\ Len(last.out) > 0 /\ readptr = size

\* C19 (positive parameters): a stream in use, created or loaded with
\* STATUS_OK whatever integers the resolver holds, has chunk_size >= 1 and
\* chunks_per_segment >= 1.
C19_PositiveParameters ==
  Usable => (chunk_size >= 1 /\ chunks_per_segment >= 1)
====
